---- MODULE Spec2Model ----
(***************************************************************************)
(* Model of cli/src/react/create.ts: the React Code Connect generator.     *)
(*                                                                         *)
(* Text is a sequence of tokens.  A token is either one character (every   *)
(* character of a caller-supplied name or option is its own token, so the  *)
(* character-level operations - regular expressions, toLowerCase,          *)
(* camelCase - are computed as the code computes them) or one fragment of  *)
(* a template literal of the source.  A line break is always the token     *)
(* "\n".  No input of the model spells a template fragment or an attribute  *)
(* name character by character, so two token sequences are equal exactly   *)
(* when the strings they stand for are equal.                              *)
(***************************************************************************)
EXTENDS Integers, Sequences, FiniteSets, TLC

VARIABLES
  fs,        \* the files of the filesystem: path -> contents
  dirs,      \* the directories that exist
  response,  \* outcome of the last createReactCodeConnect invocation
  written,   \* history: path -> contents after the first invocation that returned for it
  first,     \* history: the last invocation that returned was the first for its path
  call       \* a call of a generator function on its own, with its result

vars == <<fs, dirs, response, written, first, call>>

(***************************************************************************)
(* Bounds of the model                                                     *)
(***************************************************************************)
MaxNameLen == 3     \* longest raw property name drawn over NameAlphabet
MaxOptions == 2     \* longest variantOptions list
MaxProps == 2       \* most properties of a component
MaxDepth == 1       \* deepest nesting of intrinsics inside value mappings

(***************************************************************************)
(* Characters and strings                                                  *)
(***************************************************************************)
UpperLetters ==
  <<"A","B","C","D","E","F","G","H","I","J","K","L","M",
    "N","O","P","Q","R","S","T","U","V","W","X","Y","Z">>

LowerLetters ==
  <<"a","b","c","d","e","f","g","h","i","j","k","l","m",
    "n","o","p","q","r","s","t","u","v","w","x","y","z">>

DigitChars == {"0","1","2","3","4","5","6","7","8","9"}

UpperChars == {UpperLetters[i] : i \in 1..26}

LowerChars == {LowerLetters[i] : i \in 1..26}

IsUpper(c) == c \in UpperChars

IsLower(c) == c \in LowerChars

IsDigit(c) == c \in DigitChars

IsLetter(c) == IsUpper(c) \/ IsLower(c)

IsAlnum(c) == IsLetter(c) \/ IsDigit(c)

\* the class \s of a JavaScript regular expression, as far as tokens go
IsWhitespace(c) == c \in {" ", "\t", "\n"}

toLowerCaseChar(c) ==
  IF IsUpper(c) THEN LowerLetters[CHOOSE i \in 1..26 : UpperLetters[i] = c] ELSE c

toUpperCaseChar(c) ==
  IF IsLower(c) THEN UpperLetters[CHOOSE i \in 1..26 : LowerLetters[i] = c] ELSE c

\* String.prototype.toLowerCase
toLowerCase(s) == [i \in 1..Len(s) |-> toLowerCaseChar(s[i])]

\* the substring of s from index i to its end
From(s, i) == SubSeq(s, i, Len(s))

\* length of the longest prefix of s whose characters all belong to class
RunLen(s, class) ==
  CHOOSE n \in 0..Len(s) :
    /\ \A i \in 1..n : s[i] \in class
    /\ n = Len(s) \/ s[n + 1] \notin class

\* index of the first token of text at or after from that belongs to toks
IndexOfIn(text, toks, from) ==
  LET hits == { i \in from..Len(text) : text[i] \in toks }
  IN  IF hits = {} THEN 0 ELSE CHOOSE i \in hits : \A j \in hits : i <= j

\* index of the last token of text before upto that equals tok
LastIndexOf(text, tok, upto) ==
  LET hits == { i \in 1..(upto - 1) : text[i] = tok }
  IN  IF hits = {} THEN 0 ELSE CHOOSE i \in hits : \A j \in hits : j <= i

\* String.prototype.split on a separator token
RECURSIVE Split(_, _)
Split(s, sep) ==
  LET n == IndexOfIn(s, {sep}, 1)
  IN  IF n = 0 THEN <<s>> ELSE <<SubSeq(s, 1, n - 1)>> \o Split(From(s, n + 1), sep)

\* Array.prototype.join
RECURSIVE Join(_, _)
Join(parts, sep) ==
  IF parts = <<>> THEN <<>>
  ELSE IF Len(parts) = 1 THEN parts[1]
  ELSE parts[1] \o sep \o Join(Tail(parts), sep)

\* all sequences over S of length at most n
SeqsUpTo(S, n) == UNION {[1..k -> S] : k \in 0..n}

(***************************************************************************)
(* Name normalizer                                                         *)
(***************************************************************************)
\* the class [0-9:]
NodeIdChars == DigitChars \cup {":"}

IsNodeIdChar(c) == c \in NodeIdChars

\* isBooleanKind with 'off' left out of the vocabulary
isBooleanKindWithoutOff(propValue) ==
  LET normalized == toLowerCase(propValue)
  IN  \/ normalized = <<"t","r","u","e">>
      \/ normalized = <<"f","a","l","s","e">>
      \/ normalized = <<"y","e","s">>
      \/ normalized = <<"n","o">>
      \/ normalized = <<"o","n">>

isBooleanKind(propValue) ==
  LET normalized == toLowerCase(propValue)
  IN  \/ normalized = <<"t","r","u","e">>
      \/ normalized = <<"f","a","l","s","e">>
      \/ normalized = <<"y","e","s">>
      \/ normalized = <<"n","o">>
      \/ normalized = <<"o","n">>
      \/ normalized = <<"o","f","f">>

\* name.replace(/#[0-9:]*/g, ''): every '#', wherever it stands, is removed
\* together with the longest run of digits and colons that follows it
RECURSIVE normalizePropName(_)
normalizePropName(name) ==
  IF name = <<>> THEN <<>>
  ELSE IF Head(name) = "#"
       THEN LET rest == Tail(name)
            IN  normalizePropName(From(rest, RunLen(rest, NodeIdChars) + 1))
       ELSE <<Head(name)>> \o normalizePropName(Tail(name))

\* name.replace(/#[0-9:]+$/g, ''): the leftmost '#' followed by one or more
\* digits and colons up to the end of the string
StripTrailingNodeId(name) ==
  LET starts == { i \in 1..Len(name) :
                    /\ name[i] = "#"
                    /\ i < Len(name)
                    /\ \A j \in (i + 1)..Len(name) : IsNodeIdChar(name[j]) }
  IN  IF starts = {} THEN name
      ELSE SubSeq(name, 1, (CHOOSE i \in starts : \A j \in starts : i <= j) - 1)

\* .replace(/[^a-zA-Z0-9\s]/g, '')
StripSpecialChars(name) ==
  LET Keep(c) == IsAlnum(c) \/ IsWhitespace(c) IN SelectSeq(name, Keep)

\* lodash words() on a string of ASCII letters, digits and whitespace: a word
\* is an optional capital followed by small letters, a run of capitals (less
\* its last one when a small letter follows it), or a run of digits.  The
\* ordinal forms (1st, 2nd, 3rd, 4th) need the letters s, t, n, d, r, h after a
\* digit, which no input alphabet of this model holds.
RECURSIVE words(_)
words(s) ==
  IF s = <<>> THEN <<>>
  ELSE
    LET c == Head(s)
        n == IF IsLower(c) THEN RunLen(s, LowerChars)
             ELSE IF IsUpper(c) THEN
               IF Len(s) >= 2 /\ IsLower(s[2]) THEN 1 + RunLen(Tail(s), LowerChars)
               ELSE LET r == RunLen(s, UpperChars)
                    IN  IF r < Len(s) /\ IsLower(s[r + 1]) THEN r - 1 ELSE r
             ELSE IF IsDigit(c) THEN RunLen(s, DigitChars)
             ELSE 0
    IN  IF n = 0 THEN words(Tail(s))
        ELSE <<SubSeq(s, 1, n)>> \o words(From(s, n + 1))

\* lodash capitalize: upperFirst(word.toLowerCase())
capitalize(word) ==
  LET low == toLowerCase(word)
  IN  IF low = <<>> THEN <<>> ELSE <<toUpperCaseChar(low[1])>> \o Tail(low)

\* lodash camelCase
camelCase(s) ==
  LET ws == words(s)
  IN  Join([i \in 1..Len(ws) |->
              IF i = 1 THEN toLowerCase(ws[i]) ELSE capitalize(ws[i])], <<>>)

generateCodePropName(name) ==
  LET cleanedName == StripSpecialChars(StripTrailingNodeId(name))
  IN  camelCase(cleanedName)

\* name.replace(/[^a-zA-Z0-9]/g, '-').toLowerCase()
normalizePropValue(name) ==
  toLowerCase([i \in 1..Len(name) |-> IF IsAlnum(name[i]) THEN name[i] ELSE "-"])

(***************************************************************************)
(* Component property definitions and the single-property derivation       *)
(***************************************************************************)
\* the value null returned for a property of an unsupported type
Null == <<"null">>

\* variantOptions is optional: opts.defined is FALSE when it is undefined
PropDef(type, defined, items) ==
  [type |-> type, variantOptions |-> [defined |-> defined, items |-> items]]

NoOptions == [defined |-> FALSE, items |-> <<>>]

generateSinglePropMappingFromFigmaProp(propName, propDef) ==
  LET codePropName == generateCodePropName(propName)
      figmaPropName == normalizePropName(propName)
      opts == propDef.variantOptions
      Binding(fn) == <<"\"">> \o codePropName \o <<fn>> \o figmaPropName \o <<"')">>
  IN  IF propDef.type = "BOOLEAN" THEN Binding("\": figma.boolean('")
      ELSE IF propDef.type = "TEXT" THEN Binding("\": figma.string('")
      ELSE IF propDef.type = "VARIANT" THEN
        LET isBooleanVariant ==
              /\ opts.defined
              /\ Len(opts.items) = 2
              /\ \A i \in 1..Len(opts.items) : isBooleanKind(opts.items[i])
        IN  IF isBooleanVariant THEN Binding("\": figma.boolean('")
            ELSE <<"\"">> \o codePropName \o <<"\": figma.enum('">> \o figmaPropName
                 \o <<"', { ", "\n">>
                 \o (IF opts.defined
                     THEN Join([i \in 1..Len(opts.items) |->
                                  <<"  \"">> \o opts.items[i] \o <<"\": \"">>
                                  \o normalizePropValue(opts.items[i]) \o <<"\"">>],
                               <<",", "\n">>)
                     ELSE <<"undefined">>)
                 \o <<"})">>
      ELSE IF propDef.type = "INSTANCE_SWAP" THEN Binding("\": figma.instance('")
      ELSE Null

(***************************************************************************)
(* JavaScript values of a prop mapping.  A string holds its text in s, a   *)
(* number, a boolean and undefined hold their printed form in s, an object *)
(* (an array included: its keys are its indices) holds its own enumerable  *)
(* entries in Object.entries order.                                        *)
(***************************************************************************)
JStr(s) == [t |-> "string", s |-> s, entries |-> <<>>]

JNum(printed) == [t |-> "number", s |-> printed, entries |-> <<>>]

JBool(printed) == [t |-> "boolean", s |-> printed, entries |-> <<>>]

JUndefined == [t |-> "undefined", s |-> <<"undefined">>, entries |-> <<>>]

JObj(entries) == [t |-> "object", s |-> <<>>, entries |-> entries]

Entry(k, v) == [k |-> k, v |-> v]

IndexKeys == <<"0", "1", "2", "3", "4", "5", "6", "7", "8", "9">>

JArr(items) == JObj([i \in 1..Len(items) |-> Entry(<<IndexKeys[i]>>, items[i])])

\* the 'in' operator on an object's own keys
HasKey(obj, key) == \E i \in 1..Len(obj.entries) : obj.entries[i].k = key

\* property access: undefined when the key is missing
Get(obj, key) ==
  IF HasKey(obj, key)
  THEN obj.entries[CHOOSE i \in 1..Len(obj.entries) : obj.entries[i].k = key].v
  ELSE JUndefined

\* truthiness of a value
Truthy(v) ==
  CASE v.t = "object" -> TRUE
    [] v.t = "undefined" -> FALSE
    [] v.t = "string" -> v.s # <<>>
    [] v.t = "number" -> v.s # <<"0">>
    [] v.t = "boolean" -> v.s = <<"true">>

\* the values of the enum IntrinsicKind that the generator dispatches on
IntrinsicKind ==
  [ String |-> <<"string">>, Boolean |-> <<"boolean">>, Enum |-> <<"enum">>,
    Instance |-> <<"instance">>, Children |-> <<"children">>,
    TextContent |-> <<"text-content">>, NestedProps |-> <<"nested-props">> ]

Intrinsic(kind, args) ==
  JObj(<<Entry(<<"kind">>, JStr(kind)), Entry(<<"args">>, JObj(args))>>)

(***************************************************************************)
(* Intrinsic expression renderer.  A result is the text, or threw.         *)
(***************************************************************************)
Ok(text) == [threw |-> FALSE, text |-> text]

Threw == [threw |-> TRUE, text |-> <<>>]

RECURSIVE generateExpressionFromIntrinsic(_)
RECURSIVE generateExpressionValueMapping(_)
RECURSIVE generateExpressionValueMappingKind(_)

generateExpressionValueMappingKind(valueMappingKind) ==
  IF valueMappingKind.t = "object" /\ HasKey(valueMappingKind, <<"kind">>)
  THEN generateExpressionFromIntrinsic(valueMappingKind)
  ELSE IF valueMappingKind.t = "string"
  THEN Ok(<<"\"">> \o valueMappingKind.s \o <<"\"">>)
  ELSE IF valueMappingKind.t \in {"number", "boolean", "undefined"}
  THEN Ok(valueMappingKind.s)
  ELSE Ok(<<"undefined">>)   \* falls off the end: undefined, interpolated

generateExpressionValueMapping(valueMapping) ==
  LET es == valueMapping.entries
      rendered == [i \in 1..Len(es) |-> generateExpressionValueMappingKind(es[i].v)]
  IN  IF \E i \in 1..Len(es) : rendered[i].threw THEN Threw
      ELSE Ok(<<"{", "\n", "  ">>
              \o Join([i \in 1..Len(es) |->
                         <<"\"">> \o es[i].k \o <<"\": ">> \o rendered[i].text],
                      <<",", "\n">>)
              \o <<"\n", "}">>)

generateExpressionFromIntrinsic(intrinsic) ==
  LET kind == Get(intrinsic, <<"kind">>).s
      args == Get(intrinsic, <<"args">>)
      figmaPropName == Get(args, <<"figmaPropName">>).s
      WithValueMapping(fn) ==
        IF Truthy(Get(args, <<"valueMapping">>))
        THEN LET vm == generateExpressionValueMapping(Get(args, <<"valueMapping">>))
             IN  IF vm.threw THEN Threw
                 ELSE Ok(<<fn>> \o figmaPropName \o <<"\"", ", ">> \o vm.text \o <<")">>)
        ELSE Ok(<<fn>> \o figmaPropName \o <<"\"", ")">>)
  IN  IF kind = IntrinsicKind.String
      THEN Ok(<<"figma.string(\"">> \o figmaPropName \o <<"\"", ")">>)
      ELSE IF kind = IntrinsicKind.Boolean THEN WithValueMapping("figma.boolean(\"")
      ELSE IF kind = IntrinsicKind.Enum THEN WithValueMapping("figma.enum(\"")
      ELSE IF kind = IntrinsicKind.Instance
      THEN Ok(<<"figma.instance(\"">> \o figmaPropName \o <<"\"", ")">>)
      ELSE IF kind = IntrinsicKind.Children
      THEN LET layers == Get(args, <<"layers">>).entries
           IN  Ok(<<"figma.children(">>
                  \o (IF Len(layers) > 1
                      THEN <<"[">>
                           \o Join([i \in 1..Len(layers) |->
                                      <<"\"">> \o layers[i].v.s \o <<"\"">>], <<", ">>)
                           \o <<"]">>
                      ELSE <<"\"">> \o Get(Get(args, <<"layers">>), <<"0">>).s \o <<"\"">>)
                  \o <<")">>)
      ELSE IF kind = IntrinsicKind.TextContent
      THEN Ok(<<"figma.textContent(\"">> \o Get(args, <<"layer">>).s \o <<"\"", ")">>)
      ELSE Threw   \* throw new Error(`kind ${kind} not supported for prop mapping`)

(***************************************************************************)
(* Explicit-mapping generator                                              *)
(***************************************************************************)
\* the traversal stopping at the arguments of the mapping's own intrinsics
getSetOfPropsReferencedAtTopLevel(obj) ==
  UNION { { a.v : a \in { x \in { Get(obj.entries[i].v, <<"args">>).entries[j] :
                                   j \in 1..Len(Get(obj.entries[i].v, <<"args">>).entries) } :
                          x.k = <<"figmaPropName">> } }
          : i \in 1..Len(obj.entries) }

RECURSIVE getSetOfAllPropsReferencedInPropMapping(_)
getSetOfAllPropsReferencedInPropMapping(obj) ==
  UNION { (IF obj.entries[i].k = <<"figmaPropName">> THEN {obj.entries[i].v} ELSE {})
          \cup (IF obj.entries[i].v.t = "object"
                THEN getSetOfAllPropsReferencedInPropMapping(obj.entries[i].v)
                ELSE {})
          : i \in 1..Len(obj.entries) }

\* a component: componentPropertyDefinitions is the sequence of its entries
\* in iteration order, each a property name with its definition
Prop(name, def) == [name |-> name, def |-> def]

Component(normalizedName, figmaNodeUrl, defs) ==
  [ normalizedName |-> normalizedName, figmaNodeUrl |-> figmaNodeUrl,
    componentPropertyDefinitions |-> defs ]

generatePropsFromMapping(component, propMapping) ==
  LET es == propMapping.entries
      exprs == [i \in 1..Len(es) |-> generateExpressionFromIntrinsic(es[i].v)]
      mappedProps == [i \in 1..Len(es) |->
                        <<"\"">> \o es[i].k \o <<"\": ">> \o exprs[i].text]
      usedFigmaPropsSet == getSetOfAllPropsReferencedInPropMapping(propMapping)
      defs == component.componentPropertyDefinitions
      Suggested(p) ==
        /\ JStr(p.name) \notin usedFigmaPropsSet
        /\ generateSinglePropMappingFromFigmaProp(p.name, p.def) # Null
      unmapped == SelectSeq(defs, Suggested)
      unmappedProps == [i \in 1..Len(unmapped) |->
        generateSinglePropMappingFromFigmaProp(unmapped[i].name, unmapped[i].def)]
  IN  IF \E i \in 1..Len(es) : exprs[i].threw THEN Threw
      ELSE Ok(<<"{", "\n", "  ",
                "// These props were automatically mapped based on your linked code:",
                "\n", "  ">>
              \o Join(mappedProps, <<",", "\n">>)
              \o <<",", "\n", "  ">>
              \o (IF Len(unmappedProps) # 0
                  THEN <<"// No matching props could be found for these Figma properties:",
                         "\n", "  ">>
                       \o Join([i \in 1..Len(unmappedProps) |->
                                  <<"// ">> \o unmappedProps[i]], <<",", "\n">>)
                  ELSE <<>>)
              \o <<"\n", "  ", "}">>)

(***************************************************************************)
(* Auto-mapping generator                                                  *)
(***************************************************************************)
\* generateProps passing over the INSTANCE_SWAP properties
generatePropsWithoutInstanceSwap(component) ==
  LET defs == component.componentPropertyDefinitions
      Supported(p) ==
        /\ generateSinglePropMappingFromFigmaProp(p.name, p.def) # Null
        /\ p.def.type # "INSTANCE_SWAP"
      kept == SelectSeq(defs, Supported)
      props == [i \in 1..Len(kept) |->
                  generateSinglePropMappingFromFigmaProp(kept[i].name, kept[i].def)]
  IN  IF Len(defs) = 0 THEN <<"{}">>
      ELSE <<"{", "\n", "  ">> \o Join(props, <<",", "\n", "  ">>) \o <<"\n", "}">>

generateProps(component) ==
  LET defs == component.componentPropertyDefinitions
      Supported(p) == generateSinglePropMappingFromFigmaProp(p.name, p.def) # Null
      kept == SelectSeq(defs, Supported)
      props == [i \in 1..Len(kept) |->
                  generateSinglePropMappingFromFigmaProp(kept[i].name, kept[i].def)]
  IN  IF Len(defs) = 0 THEN <<"{}">>
      ELSE <<"{", "\n", "  ">> \o Join(props, <<",", "\n", "  ">>) \o <<"\n", "}">>

(***************************************************************************)
(* Inputs of the generator functions                                       *)
(***************************************************************************)
\* raw property names: a small letter, a capital, a digit, whitespace, and
\* the characters of a node-id annotation
NameAlphabet == {"a", "B", "1", " ", "#", ":"}

Names == SeqsUpTo(NameAlphabet, MaxNameLen) \ {<<>>}

SampleNames == { <<"a">>, <<"a", " ", "B", "#", "1", ":", "1">>, <<"B", "#", "1">> }

OptTrue == <<"t","r","u","e">>
OptFALSE == <<"F","A","L","S","E">>
OptYes == <<"Y","e","s">>
OptNo == <<"n","o">>
OptOn == <<"O","n">>
OptOff == <<"o","f","f">>
OptOf == <<"o","f">>
OptSmall == <<"S","m","a","l","l">>
OptXL == <<"X"," ","L">>

\* the options that are boolean words in some casing, and all options
BooleanOptions == {OptTrue, OptFALSE, OptYes, OptNo, OptOn, OptOff}

OptionValues == BooleanOptions \cup {OptOf, OptSmall, OptXL}

PropTypes == {"BOOLEAN", "TEXT", "VARIANT", "INSTANCE_SWAP", "FLOAT"}

SupportedTypes == {"BOOLEAN", "TEXT", "VARIANT", "INSTANCE_SWAP"}

SampleDefs ==
  { PropDef(t, FALSE, <<>>) : t \in PropTypes \ {"VARIANT"} }
  \cup { PropDef("VARIANT", TRUE, <<OptSmall, OptXL>>),
         PropDef("VARIANT", TRUE, <<OptYes, OptNo>>) }

AllDefs ==
  { PropDef(t, FALSE, <<>>) : t \in PropTypes }
  \cup { PropDef("VARIANT", TRUE, o) : o \in SeqsUpTo(OptionValues, MaxOptions) }

\* components for the auto-mapping generator: up to MaxProps properties with
\* distinct names
PoolProps == { Prop(n, d) : n \in SampleNames, d \in SampleDefs }

DistinctNames(defs) ==
  \A i, j \in 1..Len(defs) : i # j => defs[i].name # defs[j].name

PropLists(pool) == { defs \in SeqsUpTo(pool, MaxProps) : DistinctNames(defs) }

NodeUrl == <<"https://figma.com/design/abc?node-id=1-2">>

Components == { Component(<<"B","a">>, NodeUrl, defs) : defs \in PropLists(PoolProps) }

\* components for the explicit-mapping generator
MappedPoolProps ==
  { Prop(<<"a">>, PropDef("BOOLEAN", FALSE, <<>>)),
    Prop(<<"B", "#", "1">>, PropDef("TEXT", FALSE, <<>>)),
    Prop(<<"a", " ", "B">>, PropDef("VARIANT", TRUE, <<OptSmall, OptXL>>)),
    Prop(<<"1">>, PropDef("FLOAT", FALSE, <<>>)) }

MappedComponents ==
  { Component(<<"B","a">>, NodeUrl, defs) : defs \in PropLists(MappedPoolProps) }

FigmaProp(name) == <<Entry(<<"figmaPropName">>, JStr(name))>>

LeafIntrinsics ==
  { Intrinsic(IntrinsicKind.String, FigmaProp(<<"a">>)),
    Intrinsic(IntrinsicKind.String, FigmaProp(<<"B", "#", "1">>)),
    Intrinsic(IntrinsicKind.Instance, FigmaProp(<<"B">>)),
    Intrinsic(IntrinsicKind.Boolean, FigmaProp(<<"a">>)),
    Intrinsic(IntrinsicKind.Enum, FigmaProp(<<"a", " ", "B">>)),
    Intrinsic(IntrinsicKind.Children,
              <<Entry(<<"layers">>, JArr(<<JStr(<<"Icon">>)>>))>>),
    Intrinsic(IntrinsicKind.Children,
              <<Entry(<<"layers">>, JArr(<<JStr(<<"Icon">>), JStr(<<"Label">>)>>))>>),
    Intrinsic(IntrinsicKind.TextContent, <<Entry(<<"layer">>, JStr(<<"Label">>))>>),
    Intrinsic(IntrinsicKind.NestedProps, <<Entry(<<"layer">>, JStr(<<"Label">>))>>) }

Literals ==
  { JStr(<<"a">>), JNum(<<"1">>), JBool(<<"true">>), JUndefined, JArr(<<JStr(<<"a">>)>>) }

\* keys of a value mapping: design-side values, one of them spelled like the
\* attribute the traversal looks for
ValueMappingKeys == { OptOn, <<"figmaPropName">> }

RECURSIVE Intrinsics(_)
Intrinsics(d) ==
  IF d = 0 THEN LeafIntrinsics
  ELSE
    LET vals == Literals \cup Intrinsics(d - 1)
        vms == {<<>>}
               \cup { <<Entry(k, v)>> : k \in ValueMappingKeys, v \in vals }
               \cup { <<Entry(OptOff, JStr(<<"no">>)), Entry(OptOn, v)>> : v \in vals }
    IN  LeafIntrinsics
        \cup { Intrinsic(IntrinsicKind.Boolean,
                         FigmaProp(<<"a">>) \o <<Entry(<<"valueMapping">>, JObj(vm))>>)
               : vm \in vms }
        \cup { Intrinsic(IntrinsicKind.Enum,
                         FigmaProp(<<"B", "#", "1">>) \o <<Entry(<<"valueMapping">>, JObj(vm))>>)
               : vm \in vms }

AllIntrinsics == Intrinsics(MaxDepth)

PropMappings ==
  { JObj(<<Entry(k, x)>>) : k \in { <<"label">>, <<"figmaPropName">> }, x \in AllIntrinsics }
  \cup { JObj(<<Entry(<<"label">>, Intrinsic(IntrinsicKind.String, FigmaProp(<<"a">>))),
                Entry(<<"size">>, x)>>) : x \in AllIntrinsics }

(***************************************************************************)
(* The generator functions, called on their own.  The initial state holds  *)
(* the call to make with its arguments; the action makes it and records    *)
(* what it returns.                                                        *)
(***************************************************************************)
NoCall == [op |-> "none", done |-> TRUE]

NoResponse == [status |-> "none"]

PendingCalls ==
  { [op |-> "generateSinglePropMappingFromFigmaProp", done |-> FALSE,
     propName |-> n, propDef |-> d] : n \in Names, d \in SampleDefs }
  \cup { [op |-> "generateSinglePropMappingFromFigmaProp", done |-> FALSE,
          propName |-> n, propDef |-> d] : n \in SampleNames, d \in AllDefs }
  \cup { [op |-> "generateProps", done |-> FALSE, component |-> c] : c \in Components }
  \cup { [op |-> "generatePropsFromMapping", done |-> FALSE,
          component |-> c, propMapping |-> m] : c \in MappedComponents, m \in PropMappings }
  \cup { [op |-> "generateExpressionFromIntrinsic", done |-> FALSE, intrinsic |-> x]
         : x \in AllIntrinsics }

CallGenerateSinglePropMapping ==
  /\ call.op = "generateSinglePropMappingFromFigmaProp" /\ ~call.done
  /\ call' = [ op |-> call.op, done |-> TRUE,
               propName |-> call.propName, propDef |-> call.propDef,
               result |-> generateSinglePropMappingFromFigmaProp(call.propName, call.propDef) ]
  /\ UNCHANGED <<fs, dirs, response, written, first>>

CallGenerateProps ==
  /\ call.op = "generateProps" /\ ~call.done
  /\ call' = [ op |-> call.op, done |-> TRUE, component |-> call.component,
               result |-> generateProps(call.component) ]
  /\ UNCHANGED <<fs, dirs, response, written, first>>

CallGeneratePropsFromMapping ==
  /\ call.op = "generatePropsFromMapping" /\ ~call.done
  /\ call' = [ op |-> call.op, done |-> TRUE, component |-> call.component,
               propMapping |-> call.propMapping,
               result |-> generatePropsFromMapping(call.component, call.propMapping) ]
  /\ UNCHANGED <<fs, dirs, response, written, first>>

CallGenerateExpressionFromIntrinsic ==
  /\ call.op = "generateExpressionFromIntrinsic" /\ ~call.done
  /\ call' = [ op |-> call.op, done |-> TRUE, intrinsic |-> call.intrinsic,
               result |-> generateExpressionFromIntrinsic(call.intrinsic) ]
  /\ UNCHANGED <<fs, dirs, response, written, first>>

InitGen ==
  /\ fs = <<>>
  /\ dirs = {}
  /\ response = NoResponse
  /\ written = <<>>
  /\ first = FALSE
  /\ call \in PendingCalls

NextGen ==
  \/ CallGenerateSinglePropMapping
  \/ CallGenerateProps
  \/ CallGeneratePropsFromMapping
  \/ CallGenerateExpressionFromIntrinsic

SpecGen == InitGen /\ [][NextGen]_vars

(***************************************************************************)
(* Paths.  A path is a text whose separator is the token "/"; the name of  *)
(* a directory and a file extension are one token each.                    *)
(***************************************************************************)
\* path.dirname
dirname(path) ==
  LET n == LastIndexOf(path, "/", Len(path) + 1)
  IN  IF n = 0 THEN <<".">> ELSE SubSeq(path, 1, n - 1)

\* path.basename
basename(path) == From(path, LastIndexOf(path, "/", Len(path) + 1) + 1)

\* path.parse(path).name: the base name less its last extension
parseName(path) ==
  LET base == basename(path)
      dot == LastIndexOf(base, ".", Len(base) + 1)
  IN  IF dot <= 1 THEN base ELSE SubSeq(base, 1, dot - 1)

DirSegments(dir) == IF dir = <<".">> THEN <<>> ELSE Split(dir, "/")

\* path.relative(from, to), both taken from the working directory
relative(from, to) ==
  LET f == DirSegments(from)
      t == Split(to, "/")
      k == CHOOSE n \in 0..Len(f) :
             /\ n <= Len(t)
             /\ \A i \in 1..n : f[i] = t[i]
             /\ n = Len(f) \/ n = Len(t) \/ f[n + 1] # t[n + 1]
  IN  Join([i \in 1..(Len(f) - k) |-> <<"..">>] \o SubSeq(t, k + 1, Len(t)), <<"/">>)

\* the directory dir and every directory above it, as mkdir -p makes them
WithParents(dir) ==
  LET segs == DirSegments(dir)
  IN  { Join(SubSeq(segs, 1, n), <<"/">>) : n \in 1..Len(segs) }

\* normalizeComponentName of connect/create: an identifier derived from a name
normalizeComponentName(name) == SelectSeq(name, IsAlnum)

\* getOutFileName of connect/create_common: the destination file when one is
\* given, else the base filename with the fixed extension in the destination
\* directory
getOutFileName(outFile, outDir, sourceFilename, extension) ==
  IF Truthy(outFile) THEN outFile.s
  ELSE outDir.s \o <<"/">> \o sourceFilename \o <<".", extension>>

\* returns ES-style import path from given system path
formatImportPath(systemPath) ==
  LET formattedImportPath ==
        IF systemPath # <<>> /\ systemPath[1] \in {".", ".."}
        THEN systemPath ELSE <<"./">> \o systemPath
      n == Len(formattedImportPath)
  IN  IF n >= 2 /\ formattedImportPath[n - 1] = "."
           /\ formattedImportPath[n] \in {"jsx", "tsx"}
      THEN SubSeq(formattedImportPath, 1, n - 2)
      ELSE formattedImportPath

getImportsPath(codeConnectFilePath, sourceFilepath, normalizedName) ==
  IF ~Truthy(sourceFilepath) THEN <<"./">> \o normalizedName
  ELSE LET codeConnectFolder == dirname(codeConnectFilePath)
           pathToComponentFile == relative(codeConnectFolder, sourceFilepath.s)
       IN  formatImportPath(pathToComponentFile)

(***************************************************************************)
(* File emission                                                           *)
(***************************************************************************)
Payload(component, destinationFile, destinationDir, sourceFilepath, sourceExport,
        propMapping) ==
  [ component |-> component, destinationFile |-> destinationFile,
    destinationDir |-> destinationDir, sourceFilepath |-> sourceFilepath,
    sourceExport |-> sourceExport, propMapping |-> propMapping ]

SourceFilename(payload) ==
  IF Truthy(payload.sourceFilepath)
  THEN Split(parseName(payload.sourceFilepath.s), ".")[1]
  ELSE payload.component.normalizedName

FilePath(payload) ==
  getOutFileName(payload.destinationFile, payload.destinationDir,
                 SourceFilename(payload), "tsx")

HasPropMapping(payload) ==
  Truthy(payload.propMapping) /\ Len(payload.propMapping.entries) > 0

\* ImportName looking at sourceExport alone
ImportNameFromExportAlone(payload) ==
  IF Truthy(payload.sourceExport)
  THEN IF payload.sourceExport.s = <<"default">>
       THEN normalizeComponentName(SourceFilename(payload))
       ELSE payload.sourceExport.s
  ELSE payload.component.normalizedName

ImportName(payload) ==
  IF Truthy(payload.sourceFilepath) /\ Truthy(payload.sourceExport)
  THEN IF payload.sourceExport.s = <<"default">>
       THEN normalizeComponentName(SourceFilename(payload))
       ELSE payload.sourceExport.s
  ELSE payload.component.normalizedName

\* the props block of the template: the text, or threw
PropsBlock(payload) ==
  IF HasPropMapping(payload)
  THEN generatePropsFromMapping(payload.component, payload.propMapping)
  ELSE Ok(generateProps(payload.component))

\* the template literal codeConnect, around the text of the props block
\* (the header's grave accents around props and example cannot be written
\* inside a string of this notation and are left out of the header tokens)
CodeConnect(payload, props) ==
  LET importName == ImportName(payload)
      importsPath == getImportsPath(FilePath(payload), payload.sourceFilepath,
                                    payload.component.normalizedName)
  IN  <<"\n", "import React from 'react'", "\n", "import ">>
      \o (IF payload.sourceExport.t = "string" /\ payload.sourceExport.s = <<"default">>
          THEN importName ELSE <<"{ ">> \o importName \o <<" }">>)
      \o <<" from '">> \o importsPath \o <<"'", "\n",
           "import figma from '@figma/code-connect'", "\n", "\n">>
      \o (IF HasPropMapping(payload)
          THEN <<"/**", "\n",
                 " * -- This file was auto-generated by Code Connect --", "\n",
                 " * props includes a mapping from your code props to Figma properties.", "\n",
                 " * You should check this is correct, and update the example function", "\n",
                 " * to return the code example you'd like to see in Figma", "\n",
                 "*/">>
          ELSE <<"/**", "\n",
                 " * -- This file was auto-generated by Code Connect --", "\n",
                 " * props includes a mapping from Figma properties and variants to", "\n",
                 " * suggested values. You should update this to match the props of your", "\n",
                 " * code component, and update the example function to return the", "\n",
                 " * code example you'd like to see in Figma", "\n",
                 "*/">>)
      \o <<"\n", "\n", "figma.connect(">> \o importName \o <<", \"">>
      \o payload.component.figmaNodeUrl \o <<"\", {", "\n", "  props: ">>
      \o props
      \o <<",", "\n", "  example: (props) => <">> \o importName \o <<" />", "\n", "})", "\n">>

\* what prettier.format returns for a text it accepts: the text laid out anew
\* under the options of the call
prettierFormat(source) ==
  [parser |-> "typescript", semi |-> FALSE, trailingComma |-> "all", source |-> source]

\* fs.existsSync
existsSync(path) == path \in DOMAIN fs \/ path \in dirs

Response(status, payload, filePath, codeConnect, calls, rejected, createdFiles, messages) ==
  [ status |-> status, payload |-> payload, filePath |-> filePath,
    codeConnect |-> codeConnect, calls |-> calls, rejected |-> rejected,
    createdFiles |-> createdFiles, messages |-> messages ]

\* FormatAndWrite without the existence guard
FormatAndWriteUnguarded(payload, filePath, codeConnect, formatterRejects) ==
  IF formatterRejects
  THEN /\ response' = Response("threw", payload, filePath, codeConnect,
                               <<"format">>, TRUE, <<>>, <<>>)
       /\ UNCHANGED <<fs, dirs>>
  ELSE /\ dirs' = dirs \cup WithParents(dirname(filePath))
       /\ fs' = (filePath :> prettierFormat(codeConnect)) @@ fs
       /\ response' =
            Response("returned", payload, filePath, codeConnect,
                     <<"format", "mkdirSync", "writeFileSync">>, FALSE,
                     <<[filePath |-> filePath]>>, <<>>)

\* FormatAndWrite making the directory before it formats
FormatAndWriteMkdirFirst(payload, filePath, codeConnect, formatterRejects) ==
  IF formatterRejects
  THEN /\ response' = Response("threw", payload, filePath, codeConnect,
                               <<"mkdirSync", "format">>, TRUE, <<>>, <<>>)
       /\ dirs' = dirs \cup WithParents(dirname(filePath))
       /\ UNCHANGED fs
  ELSE IF existsSync(filePath)
  THEN /\ response' =
            Response("returned", payload, filePath, codeConnect,
                     <<"mkdirSync", "format", "existsSync">>, FALSE, <<>>,
                     << [ message |-> <<"File ">> \o filePath
                                      \o <<" already exists, skipping creation">>,
                          level |-> "ERROR" ] >>)
       /\ dirs' = dirs \cup WithParents(dirname(filePath))
       /\ UNCHANGED fs
  ELSE /\ dirs' = dirs \cup WithParents(dirname(filePath))
       /\ fs' = (filePath :> prettierFormat(codeConnect)) @@ fs
       /\ response' =
            Response("returned", payload, filePath, codeConnect,
                     <<"mkdirSync", "format", "existsSync", "writeFileSync">>, FALSE,
                     <<[filePath |-> filePath]>>, <<>>)

\* The end of an invocation: format, existence check, mkdir and write.
\* formatterRejects: prettier finds the composed text malformed and throws.
FormatAndWrite(payload, filePath, codeConnect, formatterRejects) ==
  IF formatterRejects
  THEN /\ response' = Response("threw", payload, filePath, codeConnect,
                               <<"format">>, TRUE, <<>>, <<>>)
       /\ UNCHANGED <<fs, dirs>>
  ELSE IF existsSync(filePath)
  THEN /\ response' =
            Response("returned", payload, filePath, codeConnect,
                     <<"format", "existsSync">>, FALSE, <<>>,
                     << [ message |-> <<"File ">> \o filePath
                                      \o <<" already exists, skipping creation">>,
                          level |-> "ERROR" ] >>)
       /\ UNCHANGED <<fs, dirs>>
  ELSE /\ dirs' = dirs \cup WithParents(dirname(filePath))
       /\ fs' = (filePath :> prettierFormat(codeConnect)) @@ fs
       /\ response' =
            Response("returned", payload, filePath, codeConnect,
                     <<"format", "existsSync", "mkdirSync", "writeFileSync">>, FALSE,
                     <<[filePath |-> filePath]>>, <<>>)

\* The composition of the text: the props block may throw.
Compose(payload, filePath, props, formatterRejects) ==
  IF props.threw
  THEN /\ response' = Response("threw", payload, filePath, <<>>, <<>>, FALSE, <<>>, <<>>)
       /\ UNCHANGED <<fs, dirs>>
  ELSE FormatAndWrite(payload, filePath, CodeConnect(payload, props.text), formatterRejects)

\* One invocation
createReactCodeConnect(payload, formatterRejects) ==
  Compose(payload, FilePath(payload), PropsBlock(payload), formatterRejects)

(***************************************************************************)
(* Request payloads                                                        *)
(***************************************************************************)
TheComponent ==
  Component(<<"B", "a">>, NodeUrl,
            << Prop(<<"a">>, PropDef("BOOLEAN", FALSE, <<>>)),
               Prop(<<"a", " ", "B">>, PropDef("VARIANT", TRUE, <<OptYes, OptNo>>)) >>)

SourcePath == <<"src", "/", "a", "-", "B", ".", "x", ".", "tsx">>

LabelMapping(kind, args) == JObj(<<Entry(<<"label">>, Intrinsic(kind, args))>>)

\* every combination of source file, export and mapping into the destination
\* directory, and two requests that name the destination file
Payloads ==
  { Payload(TheComponent, JUndefined, JStr(<<"out">>), sf, se, pm) :
      sf \in { JUndefined, JStr(SourcePath) },
      se \in { JUndefined, JStr(<<"default">>), JStr(<<"B">>) },
      pm \in { JUndefined,
               LabelMapping(IntrinsicKind.String, FigmaProp(<<"a">>)),
               LabelMapping(IntrinsicKind.NestedProps,
                            <<Entry(<<"layer">>, JStr(<<"Label">>))>>) } }
  \cup { Payload(TheComponent, JStr(df), JStr(<<"out">>), JUndefined, JUndefined, JObj(<<>>)) :
           df \in { <<"out", "/", "B", "a", ".", "tsx">>,
                    <<"gen", "/", "x", ".", "tsx">> } }

\* an invocation, with the history it leaves
Invoke(payload, formatterRejects) ==
  /\ createReactCodeConnect(payload, formatterRejects)
  /\ LET p == response'.filePath
     IN  IF response'.status = "returned"
         THEN /\ first' = (p \notin DOMAIN written)
              /\ written' = IF p \in DOMAIN written \/ p \notin DOMAIN fs' THEN written
                            ELSE (p :> fs'[p]) @@ written
         ELSE UNCHANGED <<written, first>>
  /\ UNCHANGED call

Init ==
  /\ fs = <<>>
  /\ dirs = {}
  /\ response = NoResponse
  /\ written = <<>>
  /\ first = FALSE
  /\ call = NoCall

Next == \E payload \in Payloads, formatterRejects \in BOOLEAN : Invoke(payload, formatterRejects)

Spec == Init /\ [][Next]_vars

(***************************************************************************)
(* Reading a generated props block back                                    *)
(***************************************************************************)
BooleanHead == "\": figma.boolean('"
StringHead == "\": figma.string('"
EnumHead == "\": figma.enum('"
InstanceHead == "\": figma.instance('"

DeclHeads == {BooleanHead, StringHead, EnumHead, InstanceHead}

DeclEnds == {"')", "', { "}

\* the declaration whose binding call starts at token h of text: its binding,
\* the key before it, the design property name after it, and whether the
\* declaration stands behind a line-comment marker
DeclAt(text, h) ==
  LET q == LastIndexOf(text, "\"", h)
  IN  [ head |-> text[h],
        codeName |-> SubSeq(text, q + 1, h - 1),
        figmaName |-> SubSeq(text, h + 1, IndexOfIn(text, DeclEnds, h + 1) - 1),
        commented |-> q > 1 /\ text[q - 1] = "// " ]

RECURSIVE DeclsFrom(_, _)
DeclsFrom(text, i) ==
  IF i > Len(text) THEN <<>>
  ELSE IF text[i] \in DeclHeads THEN <<DeclAt(text, i)>> \o DeclsFrom(text, i + 1)
  ELSE DeclsFrom(text, i + 1)

Decls(text) == DeclsFrom(text, 1)

\* the lines of a text
RECURSIVE Lines(_)
Lines(text) ==
  LET n == IndexOfIn(text, {"\n"}, 1)
  IN  IF n = 0 THEN <<text>>
      ELSE <<SubSeq(text, 1, n - 1)>> \o Lines(From(text, n + 1))

Range(f) == { f[i] : i \in DOMAIN f }

SingleDone == call.op = "generateSinglePropMappingFromFigmaProp" /\ call.done

HeadsOfType(type) ==
  CASE type = "BOOLEAN" -> {BooleanHead}
    [] type = "TEXT" -> {StringHead}
    [] type = "VARIANT" -> {BooleanHead, EnumHead}
    [] type = "INSTANCE_SWAP" -> {InstanceHead}
    [] OTHER -> {}

(***************************************************************************)
(* C3: the properties suggested as unmapped are exactly the supported-type *)
(* properties whose name no figmaPropName attribute of the mapping holds,  *)
(* at any depth.                                                           *)
(***************************************************************************)
RECURSIVE Referenced(_, _)
Referenced(name, obj) ==
  \E i \in 1..Len(obj.entries) :
    \/ obj.entries[i].k = <<"figmaPropName">> /\ obj.entries[i].v = JStr(name)
    \/ obj.entries[i].v.t = "object" /\ Referenced(name, obj.entries[i].v)

MappingDone ==
  call.op = "generatePropsFromMapping" /\ call.done /\ ~call.result.threw

ExpectedUnmapped(component, propMapping) ==
  { p \in Range(component.componentPropertyDefinitions) :
      p.def.type \in SupportedTypes /\ ~Referenced(p.name, propMapping) }

SuggestedDecls(text) == { d \in Range(Decls(text)) : d.commented }

\* C3: the set of suggested-unmapped declarations is the set of supported
\* properties that no figmaPropName of the mapping names
C3_UnmappedExact ==
  MappingDone =>
    LET expected == ExpectedUnmapped(call.component, call.propMapping)
        emitted == Decls(call.result.text)
    IN  /\ \A i \in 1..Len(emitted) : emitted[i].commented
        /\ Len(emitted) = Cardinality(expected)
        /\ { d.figmaName : d \in Range(emitted) }
             = { normalizePropName(p.name) : p \in expected }

\* a property referenced only from inside a value mapping, beside one that is
\* suggested
C3_Witness ==
  /\ MappingDone
  /\ SuggestedDecls(call.result.text) # {}
  /\ \E p \in Range(call.component.componentPropertyDefinitions) :
       /\ p.def.type \in SupportedTypes
       /\ Referenced(p.name, call.propMapping)
       /\ \A e \in Range(call.propMapping.entries) :
            Get(Get(e.v, <<"args">>), <<"figmaPropName">>) # JStr(p.name)

(***************************************************************************)
(* C4: generateProps emits one declaration per supported property, in      *)
(* order, none for the others, and an empty block when there is none.      *)
(***************************************************************************)
GeneratePropsDone == call.op = "generateProps" /\ call.done

SupportedProps(component) ==
  LET IsSupported(p) == p.def.type \in SupportedTypes
  IN  SelectSeq(component.componentPropertyDefinitions, IsSupported)

IsEmptyBlock(text) ==
  LET Ink(t) == t \notin {"\n", "  ", " "}
  IN  SelectSeq(text, Ink) \in { <<"{}">>, <<"{", "}">> }

\* C4: N supported and M unsupported properties give exactly N declarations,
\* the i-th for the i-th supported property; N = 0 gives an empty block
C4_OnePerSupported ==
  GeneratePropsDone =>
    LET supported == SupportedProps(call.component)
        emitted == Decls(call.result)
    IN  /\ Len(emitted) = Len(supported)
        /\ \A i \in 1..Len(emitted) :
             /\ emitted[i].head \in HeadsOfType(supported[i].def.type)
             /\ emitted[i].figmaName = normalizePropName(supported[i].name)
             /\ ~emitted[i].commented
        /\ Len(supported) = 0 => IsEmptyBlock(call.result)

C4_Witness ==
  /\ GeneratePropsDone
  /\ Len(SupportedProps(call.component)) >= 1
  /\ Len(call.component.componentPropertyDefinitions)
       > Len(SupportedProps(call.component))
  /\ Len(Decls(call.result)) = Len(SupportedProps(call.component))

(***************************************************************************)
(* C5: normalizePropName removes a trailing node-id suffix and nothing     *)
(* else, and is the identity on a name without one.                        *)
(***************************************************************************)
\* s has the shape digits(:digits)*
IsNodeId(s) ==
  /\ s # <<>>
  /\ \A i \in 1..Len(s) : s[i] \in NodeIdChars
  /\ s[1] # ":" /\ s[Len(s)] # ":"
  /\ \A i \in 1..(Len(s) - 1) : ~(s[i] = ":" /\ s[i + 1] = ":")

\* where the trailing #123:45-shaped suffix of name starts, 0 if it has none
NodeIdSuffixStart(name) ==
  LET starts == { i \in 1..Len(name) : name[i] = "#" /\ IsNodeId(From(name, i + 1)) }
  IN  IF starts = {} THEN 0 ELSE CHOOSE i \in starts : TRUE

WithoutNodeIdSuffix(name) ==
  IF NodeIdSuffixStart(name) = 0 THEN name
  ELSE SubSeq(name, 1, NodeIdSuffixStart(name) - 1)

VariantDone == SingleDone /\ call.propDef.type = "VARIANT"

\* C6: boolean binding iff exactly two options, both among the boolean words
\* whatever their casing; an enum binding otherwise
C6_BooleanVariant ==
  VariantDone =>
    LET opts == call.propDef.variantOptions
        twoBooleanWords ==
          /\ opts.defined
          /\ Len(opts.items) = 2
          /\ opts.items[1] \in BooleanOptions
          /\ opts.items[2] \in BooleanOptions
        head == Decls(call.result)[1].head
    IN  /\ head = BooleanHead <=> twoBooleanWords
        /\ ~twoBooleanWords => head = EnumHead

\* two boolean words, one of them not in lower case, mapped to a boolean
C6_Witness ==
  /\ VariantDone
  /\ call.propDef.variantOptions.items = <<OptFALSE, OptOn>>
  /\ Decls(call.result)[1].head = BooleanHead

(***************************************************************************)
(* C7: a Boolean or Enum intrinsic is rendered with a value-mapping        *)
(* argument only if its valueMapping has entries.                          *)
(***************************************************************************)
ExpressionDone ==
  /\ call.op = "generateExpressionFromIntrinsic" /\ call.done
  /\ ~call.result.threw
  /\ Get(call.intrinsic, <<"kind">>).s \in {IntrinsicKind.Boolean, IntrinsicKind.Enum}

\* the rendered call has a second argument after the quoted property name
HasSecondArgument(text, figmaPropName) ==
  /\ Len(text) >= Len(figmaPropName) + 3
  /\ text[Len(figmaPropName) + 3] = ", "

\* C7: the value-mapping argument is there only if valueMapping is non-empty;
\* with valueMapping absent or empty the property name is the only argument
C7_ValueMappingOnlyIfNonEmpty ==
  ExpressionDone =>
    LET args == Get(call.intrinsic, <<"args">>)
        name == Get(args, <<"figmaPropName">>).s
        nonEmpty == /\ HasKey(args, <<"valueMapping">>)
                    /\ Len(Get(args, <<"valueMapping">>).entries) > 0
        text == call.result.text
    IN  /\ HasSecondArgument(text, name) => nonEmpty
        /\ ~nonEmpty => /\ Len(text) = Len(name) + 3
                        /\ SubSeq(text, 2, Len(name) + 1) = name
                        /\ text[Len(text)] = ")"

(***************************************************************************)
(* C8: every line of a suggested-unmapped declaration is commented out.    *)
(***************************************************************************)
NoMatchHeader == "// No matching props could be found for these Figma properties:"

\* the lines of the block after the header of the suggestions, less the line
\* that closes the block
SuggestionLines(text) ==
  LET ls == Lines(text)
      h == CHOOSE i \in 1..Len(ls) : NoMatchHeader \in Range(ls[i])
  IN  SubSeq(ls, h + 1, Len(ls) - 1)

StartsWithLineComment(line) ==
  LET Ink(t) == t # "  "
      inked == SelectSeq(line, Ink)
  IN  inked # <<>> /\ inked[1] = "// "

\* C8: every line that belongs to a suggested declaration begins with the
\* line-comment marker
C8_SuggestionsCommented ==
  (MappingDone /\ NoMatchHeader \in Range(call.result.text)) =>
    \A l \in Range(SuggestionLines(call.result.text)) : StartsWithLineComment(l)

(***************************************************************************)
(* C10: the code prop name derived from a non-empty raw name is a          *)
(* non-empty identifier.                                                   *)
(***************************************************************************)
IsIdentifier(s) ==
  /\ s # <<>>
  /\ IsLetter(s[1])
  /\ \A i \in 1..Len(s) : IsAlnum(s[i])

\* C10: the key of a declaration derived from a non-empty raw name is a
\* non-empty identifier: a letter first, letters and digits only
C10_CodePropNameIdentifier ==
  (SingleDone /\ call.result # Null /\ call.propName # <<>>) =>
    IsIdentifier(Decls(call.result)[1].codeName)

(***************************************************************************)
(* C1: the first invocation for a path writes it and returns it as the one *)
(* created file; every later one returns no created file and one ERROR     *)
(* message naming the path, and the file keeps its first contents.         *)
(***************************************************************************)
Returned == response.status = "returned"

NamesPath(message, path) ==
  \E i \in 1..Len(message) :
    i + Len(path) - 1 <= Len(message) /\ SubSeq(message, i, i + Len(path) - 1) = path

\* C1: first invocation: one created file, no message, the file written;
\* later invocations: no created file, one ERROR message naming the path;
\* the file always holds what the first invocation wrote
C1_IdempotentConflict ==
  /\ \A p \in DOMAIN written : p \in DOMAIN fs /\ fs[p] = written[p]
  /\ Returned =>
       IF first
       THEN /\ response.createdFiles = <<[filePath |-> response.filePath]>>
            /\ response.messages = <<>>
            /\ response.filePath \in DOMAIN fs
            /\ fs[response.filePath] = prettierFormat(response.codeConnect)
       ELSE /\ response.createdFiles = <<>>
            /\ Len(response.messages) = 1
            /\ response.messages[1].level = "ERROR"
            /\ NamesPath(response.messages[1].message, response.filePath)

\* a later invocation for a written path, whose own text differs from the file
C1_Witness ==
  /\ Returned /\ ~first
  /\ response.filePath \in DOMAIN written
  /\ fs[response.filePath] # prettierFormat(response.codeConnect)
  /\ fs[response.filePath] = written[response.filePath]

(***************************************************************************)
(* C2: format, then the existence check, then mkdir and write; a rejected  *)
(* text fails the invocation and leaves the filesystem as it was.          *)
(***************************************************************************)
CallOrder == <<"format", "existsSync", "mkdirSync", "writeFileSync">>

\* C2: the collaborators are called in the order format, existsSync,
\* mkdirSync, writeFileSync; when the formatter rejects, the invocation throws,
\* returns no payload, and neither a file nor a directory changes
C2_FormatBeforeFilesystem ==
  [][ response'.status # "none" =>
        /\ \E n \in 0..Len(CallOrder) : response'.calls = SubSeq(CallOrder, 1, n)
        /\ response'.rejected =>
             /\ response'.status = "threw"
             /\ response'.createdFiles = <<>> /\ response'.messages = <<>>
             /\ fs' = fs /\ dirs' = dirs ]_vars

\* the formatter rejected the text of a request whose destination exists
C2_Witness ==
  /\ response.status = "threw" /\ response.rejected
  /\ response.filePath \in DOMAIN fs

(***************************************************************************)
(* C9: the imported identifier and the import syntax.                      *)
(***************************************************************************)
Composed == response.status # "none" /\ response.codeConnect # <<>>

\* what stands between 'import ' and ' from' in the component's import line
ImportClause(text) ==
  LET line == Lines(text)[3]
  IN  SubSeq(line, 2, IndexOfIn(line, {" from '"}, 1) - 1)

ClauseFor(name, sourceExport) ==
  IF sourceExport = JStr(<<"default">>) THEN name ELSE <<"{ ">> \o name \o <<" }">>

\* C9 as stated: a given sourceExport alone decides between the identifier
\* derived from the filename, the export name, and the normalized name
C9_ImportNameAsStated ==
  Composed =>
    LET payload == response.payload
        name == IF Truthy(payload.sourceExport)
                THEN IF payload.sourceExport = JStr(<<"default">>)
                     THEN normalizeComponentName(SourceFilename(payload))
                     ELSE payload.sourceExport.s
                ELSE payload.component.normalizedName
    IN  ImportClause(response.codeConnect) = ClauseFor(name, payload.sourceExport)

\* C9 amended: the export decides only when a sourceFilepath is given too;
\* the normalized name is used if either is missing; the default-import
\* syntax is used exactly when sourceExport is 'default'
C9_ImportName ==
  Composed =>
    LET payload == response.payload
        name == IF Truthy(payload.sourceFilepath) /\ Truthy(payload.sourceExport)
                THEN IF payload.sourceExport = JStr(<<"default">>)
                     THEN normalizeComponentName(SourceFilename(payload))
                     ELSE payload.sourceExport.s
                ELSE payload.component.normalizedName
    IN  ImportClause(response.codeConnect) = ClauseFor(name, payload.sourceExport)

\* a named export without a source file: the normalized name is imported
C9_Witness ==
  /\ Composed
  /\ ~Truthy(response.payload.sourceFilepath)
  /\ Truthy(response.payload.sourceExport)
  /\ response.payload.sourceExport # JStr(<<"default">>)
  /\ ImportClause(response.codeConnect)
       = <<"{ ">> \o response.payload.component.normalizedName \o <<" }">>

====
